---- MODULE Spec2Model ----
(***************************************************************************)
(* The chat transport of py-chat-websocket-demo: the ConnectionManager     *)
(* registry of app/chat.py, the websocket_endpoint session handler that    *)
(* drives it, and the persistence calls of app/services.py the handler     *)
(* makes.                                                                  *)
(*                                                                         *)
(* The handler runs as one asyncio task per connection on one event loop:  *)
(* code between two awaits is atomic, and every await (accept, send_text,  *)
(* receive_json, close) is a point where the other tasks may run.  Each    *)
(* action below is the code from one await to the next.                    *)
(*                                                                         *)
(* The inner dictionaries of active_connections are modelled as CPython    *)
(* keeps them: an insertion-ordered array of entries in which a deletion   *)
(* leaves a dummy and an insertion of a new key appends, read through an   *)
(* iterator that remembers its position and the size the dictionary had    *)
(* when the iteration began.  The array is compacted only when a           *)
(* dictionary outgrows its first allocation (five entries); the bounds     *)
(* keep every dictionary below that.                                       *)
(***************************************************************************)
EXTENDS Integers, Sequences, FiniteSets, Bags, TLC

\* Number of websockets given to the registry directly.
MaxHandles == 3
\* Number of chat sessions (connections to the websocket endpoint).
MaxSessions == 3
\* Number of sessions that connect in the chat runs and in the admission runs.
MaxAdmissions == 2
\* Number of worker threads that serve REST join requests.
MaxWorkers == 2
\* Largest max_users a room is created with through the REST API.
MaxCapacity == 2
\* Number of inbound frames the sessions read in their loops.
MaxMsgs == 2

\* Token requests answered in a run.
MaxTokens == 2

Sessions == 1..MaxSessions

\* The sessions of the runs in which sessions chat, and of the admission runs.
Admissions == {s \in Sessions : s <= MaxAdmissions}

\* REST handlers are plain functions: each request runs in a worker thread.
Workers == 1..MaxWorkers

\* max_users of a RoomCreate request body.
Capacities == 1..MaxCapacity

\* A session's handle is its websocket; a handle is named by a number.
Handles == 1..(IF MaxHandles > MaxSessions THEN MaxHandles ELSE MaxSessions)

\* Task 0 is a caller that uses the ConnectionManager directly.
Tasks == 0..MaxSessions

RoomKeys == {"general", "lobby"}

\* User keys given to the registry directly: any str, the empty one included.
UserKeys == {"", "alice"}

\* Message texts: a text is the sequence of its pieces, as the system
\* messages are built.
Messages == {<<"hi">>}

\* Optional[str]: None is the empty sequence, a string s is <<s>>.
None == << >>

Some(s) == <<s>>

\* Python truthiness of an Optional[str]: None and "" are falsy.
Truthy(opt) == opt # None /\ opt[1] # ""

Min(S) == CHOOSE x \in S : \A y \in S : x <= y

\* ---------------------------------------------------------------- dict

\* The entry a deletion leaves behind in a dictionary's entry array.
Dummy == [key |-> "<dummy>", value |-> 0]

\* Indices of the entries of d that hold an item.
Live(d) == {i \in 1..Len(d) : d[i] # Dummy}

\* len(d)
ma_used(d) == Cardinality(Live(d))

Lookup(d, k) == {i \in Live(d) : d[i].key = k}

\* k in d
dict_contains(d, k) == Lookup(d, k) # {}

\* d[k]
dict_get(d, k) == d[CHOOSE i \in Lookup(d, k) : TRUE].value

\* d[k] = v, with every live entry for k appended instead of overwritten.
dict_set_append(d, k, v) == Append(d, [key |-> k, value |-> v])

\* d[k] = v: overwrites the value of an existing key in place, appends a new key.
dict_set(d, k, v) ==
    IF dict_contains(d, k)
    THEN [d EXCEPT ![CHOOSE i \in Lookup(d, k) : TRUE].value = v]
    ELSE Append(d, [key |-> k, value |-> v])

\* del d[k]
dict_del(d, k) == [i \in 1..Len(d) |-> IF i \in Lookup(d, k) THEN Dummy ELSE d[i]]

\* list(d.keys()): the keys in insertion order.
dict_keys(d) ==
    LET live == SelectSeq(d, LAMBDA e : e # Dummy)
    IN  [i \in 1..Len(live) |-> live[i].key]

\* The items of d as a set of <<key, value>> pairs.
dict_items(d) == {<<d[i].key, d[i].value>> : i \in Live(d)}

\* --------------------------------------------------- ConnectionManager

\* The registry is the pair (active_connections, heap): active_connections
\* maps each room key it holds to the identity of the room's inner
\* dictionary, heap holds the dictionaries that are referenced, by identity.
\* A dictionary lives as long as the registry or an iterator refers to it.

NoRooms == [r \in {} |-> 0]

NewRegistry == [ac |-> NoRooms, heap |-> NoRooms]

\* The identity a newly created dictionary gets.
FreshId(h) == Min({i \in 1..(Cardinality(DOMAIN h) + 1) : i \notin DOMAIN h})

HasRoom(reg, room_id) == room_id \in DOMAIN reg.ac

Inner(reg, room_id) == reg.heap[reg.ac[room_id]]

HasUser(reg, room_id, user_id) ==
    HasRoom(reg, room_id) /\ dict_contains(Inner(reg, room_id), user_id)

\* connect, after websocket.accept() has returned: steps 2 and 3.
connect(reg, websocket, room_id, user_id) ==
    LET withRoom ==
            IF HasRoom(reg, room_id)
            THEN reg
            ELSE [ac   |-> [r \in DOMAIN reg.ac \cup {room_id} |->
                               IF r = room_id THEN FreshId(reg.heap) ELSE reg.ac[r]],
                  heap |-> [i \in DOMAIN reg.heap \cup {FreshId(reg.heap)} |->
                               IF i \in DOMAIN reg.heap THEN reg.heap[i] ELSE << >>]]
        id == withRoom.ac[room_id]
    IN  [withRoom EXCEPT !.heap[id] = dict_set(@, user_id, websocket)]

\* disconnect without step 3: the emptied room keeps its key.
disconnect_keep_room(reg, room_id, user_id) ==
    IF HasUser(reg, room_id, user_id)
    THEN [reg EXCEPT !.heap[reg.ac[room_id]] = dict_del(@, user_id)]
    ELSE reg

\* disconnect that removes the user key from every room.
disconnect_everywhere(reg, room_id, user_id) ==
    [reg EXCEPT !.heap = [i \in DOMAIN reg.heap |->
                             IF dict_contains(reg.heap[i], user_id)
                             THEN dict_del(reg.heap[i], user_id)
                             ELSE reg.heap[i]]]

\* disconnect that removes nothing.
disconnect_skipped(reg, room_id, user_id) == reg

\* disconnect that drops the room's entry whoever the user is.
disconnect_room(reg, room_id, user_id) ==
    IF HasRoom(reg, room_id)
    THEN [reg EXCEPT !.ac = [r \in DOMAIN reg.ac \ {room_id} |-> reg.ac[r]]]
    ELSE reg

disconnect(reg, room_id, user_id) ==
    IF HasUser(reg, room_id, user_id)
    THEN LET id == reg.ac[room_id]
             removed == [reg EXCEPT !.heap[id] = dict_del(@, user_id)]
         IN  IF ma_used(removed.heap[id]) = 0
             THEN [removed EXCEPT !.ac = [r \in DOMAIN reg.ac \ {room_id} |-> reg.ac[r]]]
             ELSE removed
    ELSE reg

\* get_users_in_room that lists the entry array, deleted entries included.
get_users_in_room_raw(reg, room_id) ==
    IF HasRoom(reg, room_id)
    THEN [i \in 1..Len(Inner(reg, room_id)) |-> Inner(reg, room_id)[i].key]
    ELSE << >>

get_users_in_room(reg, room_id) ==
    IF HasRoom(reg, room_id) THEN dict_keys(Inner(reg, room_id)) ELSE << >>

\* ------------------------------------------------------------ broadcast

\* A call of broadcast_to_room or broadcast_to_user, as far as it has run:
\* the arguments, the dictionary iterator (dict, di_pos, len, di_used), the
\* handle whose send_text is awaited, and a record of what the call did
\* (start: the items of the room when the call began; attempted: the
\* handles send_text was called on, in order).  A session keeps the record
\* of its call while the call runs.
NoCall ==
    [kind |-> "none", room |-> "", message |-> << >>, exclude |-> None,
     dict |-> 0, di_pos |-> 0, len |-> 0, di_used |-> 0,
     status |-> "none", error |-> "", target |-> 0, fault |-> 0,
     start |-> {}, attempted |-> << >>]

\* The call is over: its iterator is dropped.
Finished(c, status, error) ==
    [c EXCEPT !.status = status, !.error = error, !.target = 0,
              !.dict = 0, !.di_pos = 0, !.len = 0, !.di_used = 0]

RuntimeError(c) == Finished(c, "raised", "RuntimeError")

\* `if exclude_user_id and user_id == exclude_user_id`: the recipient is skipped.
excluded(exclude_user_id, user_id) ==
    Truthy(exclude_user_id) /\ user_id = exclude_user_id[1]

\* The for loop of broadcast_to_room from the iterator's position on: up to
\* the next send_text (status "sending"), the end of the loop ("returned")
\* or the iterator's error ("raised").  The iterator fails when the
\* dictionary's size differs from the size at the start of the iteration,
\* or when it finds an item after having yielded that many.
RECURSIVE loop(_, _)
loop(heap, c) ==
    LET d == heap[c.dict]
        rest == {i \in Live(d) : i > c.di_pos}
    IN  IF c.di_used # ma_used(d) THEN RuntimeError(c)
        ELSE IF rest = {} THEN Finished(c, "returned", "")
        ELSE IF c.len = 0 THEN RuntimeError(c)
        ELSE LET i == Min(rest)
                 next == [c EXCEPT !.di_pos = i, !.len = @ - 1]
             IN  IF excluded(c.exclude, d[i].key)
                 THEN loop(heap, next)
                 ELSE [next EXCEPT !.status = "sending", !.target = d[i].value,
                                   !.attempted = Append(@, d[i].value)]

\* broadcast_to_room up to its first await.
broadcast_to_room(reg, room_id, message, exclude_user_id) ==
    LET c == [NoCall EXCEPT !.kind = "room", !.room = room_id, !.message = message,
                            !.exclude = exclude_user_id]
    IN  IF HasRoom(reg, room_id)
        THEN LET d == Inner(reg, room_id)
             IN  loop(reg.heap, [c EXCEPT !.dict = reg.ac[room_id], !.start = dict_items(d),
                                          !.len = ma_used(d), !.di_used = ma_used(d)])
        ELSE [c EXCEPT !.status = "returned"]

\* broadcast_to_user that sends to the room's first user, whoever was named.
broadcast_to_user_first(reg, user_id, room_id, message) ==
    LET c == [NoCall EXCEPT !.kind = "user", !.room = room_id, !.message = message,
                            !.exclude = Some(user_id)]
    IN  IF HasRoom(reg, room_id)
        THEN LET d == Inner(reg, room_id)
                 h == d[Min(Live(d))].value
             IN  [c EXCEPT !.status = "sending", !.target = h, !.start = {<<user_id, h>>},
                           !.attempted = <<h>>]
        ELSE [c EXCEPT !.status = "returned"]

\* broadcast_to_user up to its await.
broadcast_to_user(reg, user_id, room_id, message) ==
    LET c == [NoCall EXCEPT !.kind = "user", !.room = room_id, !.message = message,
                            !.exclude = Some(user_id)]
    IN  IF HasUser(reg, room_id, user_id)
        THEN LET h == dict_get(Inner(reg, room_id), user_id)
             IN  [c EXCEPT !.status = "sending", !.target = h, !.start = {<<user_id, h>>},
                           !.attempted = <<h>>]
        ELSE [c EXCEPT !.status = "returned"]

\* A send_text that raised: neither method catches it.
send_raised(c) == [Finished(c, "raised", "send") EXCEPT !.fault = c.target]

\* A send_text that returned: broadcast_to_user is done, broadcast_to_room
\* takes the iterator's next item.
send_returned(heap, c) ==
    IF c.kind = "user" THEN Finished(c, "returned", "")
    ELSE loop(heap, c)

\* ---------------------------------------------------------------- state

VARIABLES
    active_connections, \* ConnectionManager.active_connections: room key -> inner dict (by identity)
    heap,               \* the inner dictionaries, by identity
    users,              \* table users: the usernames that have a row
    rooms,              \* table rooms: room name -> its row
    memberships,        \* table room_memberships: the rows, as a bag
    pc,                 \* where each session's handler stands
    sess,               \* each session's connection parameters
    call,               \* each task's current (or last) broadcast call
    transport,          \* each handle's transport: "open", "gone" (the peer left), "closed" (by the server)
    closeCode,          \* the code each session was closed or refused with (0: none)
    nread,              \* frames the sessions have read in their loops
    registered,         \* the sessions whose handle connect() has stored
    connected,          \* the <<room, user>> pairs whose last connect/disconnect call was a connect
    replaced,           \* the handles a later connect for the same pair has overwritten
    join,               \* the REST join requests in flight, one per worker thread
    read,               \* the frames each session has read, in order
    wire,               \* the chat payloads written to each handle's transport, in order
    issued              \* the token requests that were answered with an access token

vars == <<active_connections, heap, users, rooms, memberships, pc, sess, call,
          transport, closeCode, nread, registered, connected, replaced, join,
          read, wire, issued>>

regVars == <<active_connections, heap>>

dbVars == <<users, rooms, memberships>>

Registry == [ac |-> active_connections, heap |-> heap]

\* The dictionaries of h still referenced: by the registry ac, or by the
\* iterator of a broadcast among calls that is suspended in a send.
Collect(h, ac, calls) ==
    LET iterating == {t \in DOMAIN calls : calls[t].status = "sending" /\ calls[t].kind = "room"}
        referenced == {ac[r] : r \in DOMAIN ac} \cup {calls[t].dict : t \in iterating}
    IN  [i \in DOMAIN h \cap referenced |-> h[i]]

NoParams == [room |-> "", user |-> "", token |-> None, fault |-> "none"]

\* A worker thread that serves no join request.
NoJoin == [pc |-> "idle", user |-> "", room |-> ""]

\* The rows the application's startup (lifespan) leaves: the admin user, the
\* four default rooms he created, and his moderator membership of each.
DefaultRooms == {"general", "random", "tech", "gaming"}

MaxUsersDefault == 100

Init ==
    /\ active_connections = NoRooms
    /\ heap = NoRooms
    /\ users = {"admin"}
    /\ rooms = [r \in DefaultRooms |-> [creator |-> "admin", max_users |-> MaxUsersDefault,
                                        is_public |-> TRUE]]
    /\ memberships = SetToBag({[user |-> "admin", room |-> r, is_moderator |-> TRUE] :
                                   r \in DefaultRooms})
    /\ pc = [s \in Sessions |-> "idle"]
    /\ sess = [s \in Sessions |-> NoParams]
    /\ call = [t \in Tasks |-> NoCall]
    /\ transport = [h \in Handles |-> "open"]
    /\ closeCode = [s \in Sessions |-> 0]
    /\ nread = 0
    /\ registered = {}
    /\ connected = {}
    /\ replaced = {}
    /\ join = [w \in Workers |-> NoJoin]
    /\ read = [s \in Sessions |-> << >>]
    /\ wire = [h \in Handles |-> << >>]
    /\ issued = {}

\* The handle stored under (room_id, user_id), as a set: empty when there is none.
Stored(reg, room_id, user_id) ==
    IF HasUser(reg, room_id, user_id) THEN {dict_get(Inner(reg, room_id), user_id)} ELSE {}

\* ------------------------------------------- direct use of the registry

\* A caller connects a fresh websocket; accept() has returned.
ApiConnect(room_id, user_id) ==
    LET h == Cardinality(registered) + 1
        reg == connect(Registry, h, room_id, user_id)
    IN  /\ h <= MaxHandles
        /\ call[0].status \in {"none", "sending"}
        /\ active_connections' = reg.ac
        /\ heap' = Collect(reg.heap, reg.ac, call)
        /\ registered' = registered \cup {h}
        /\ replaced' = replaced \cup Stored(Registry, room_id, user_id)
        /\ connected' = connected \cup {<<room_id, user_id>>}
        /\ UNCHANGED <<dbVars, join, pc, sess, call, transport, closeCode, nread, read, wire, issued>>

ApiDisconnect(room_id, user_id) ==
    LET reg == disconnect(Registry, room_id, user_id)
    IN  /\ registered # {}
        /\ call[0].status \in {"none", "sending"}
        /\ active_connections' = reg.ac
        /\ heap' = Collect(reg.heap, reg.ac, call)
        /\ connected' = connected \ {<<room_id, user_id>>}
        /\ UNCHANGED <<dbVars, join, pc, sess, call, transport, closeCode, nread, read, wire, issued,
                       registered, replaced>>

\* The caller starts broadcast_to_room; it runs to its first send_text.
ApiBroadcastToRoom(room_id, exclude_user_id) ==
    /\ call[0].status = "none"
    /\ registered # {}
    /\ call' = [call EXCEPT ![0] = broadcast_to_room(Registry, room_id, <<"msg">>,
                                                      exclude_user_id)]
    /\ UNCHANGED <<regVars, dbVars, join, pc, sess, transport, closeCode, nread, read, wire, issued,
                   registered, connected, replaced>>

ApiBroadcastToUser(user_id, room_id) ==
    /\ call[0].status = "none"
    /\ registered # {}
    /\ call' = [call EXCEPT ![0] = broadcast_to_user(Registry, user_id, room_id, <<"msg">>)]
    /\ UNCHANGED <<regVars, dbVars, join, pc, sess, transport, closeCode, nread, read, wire, issued,
                   registered, connected, replaced>>

\* The awaited send_text returns.
ApiSendReturns ==
    /\ call[0].status = "sending"
    /\ call' = [call EXCEPT ![0] = send_returned(heap, call[0])]
    /\ heap' = Collect(heap, active_connections, call')
    /\ UNCHANGED <<active_connections, dbVars, join, pc, sess, transport, closeCode, nread, read, wire, issued,
                   registered, connected, replaced>>

\* The awaited send_text raises: the recipient's peer has gone away, which
\* the server learns here.
ApiSendRaises ==
    /\ call[0].status = "sending"
    /\ call' = [call EXCEPT ![0] = send_raised(call[0])]
    /\ transport' = [transport EXCEPT ![call[0].target] = "gone"]
    /\ heap' = Collect(heap, active_connections, call')
    /\ UNCHANGED <<active_connections, dbVars, join, pc, sess, closeCode, nread, read, wire, issued,
                   registered, connected, replaced>>

RegistryNext ==
    \/ \E r \in RoomKeys, u \in UserKeys : ApiConnect(r, u)
    \/ \E r \in RoomKeys, u \in UserKeys : ApiDisconnect(r, u)
    \/ \E r \in RoomKeys, x \in {None} \cup {Some(u) : u \in UserKeys} : ApiBroadcastToRoom(r, x)
    \/ \E r \in RoomKeys, u \in UserKeys : ApiBroadcastToUser(u, r)
    \/ ApiSendReturns
    \/ ApiSendRaises

\* Calls made on the ConnectionManager: connects and disconnects in any
\* order, then one broadcast from the registry they left, suspended at each
\* send while further connects and disconnects run.  A broadcast does not
\* change the registry, so one call from every reachable registry covers the
\* calls of a longer run.
RegistrySpec == Init /\ [][RegistryNext]_vars

\* ------------------------------------------------------------- auth.py

HTTP_401_UNAUTHORIZED == 401

\* decode_token that reads the subject without verifying the token.
decode_token_unverified(token) ==
    IF Len(token) = 2 THEN Some(token[2]) ELSE None

\* A credential: << >> is the empty string, <<"forged", u>>
\* a string that jwt.decode rejects (bad signature, expired, malformed)
\* though it names the subject u, <<"jwt">> a valid token without a subject,
\* <<"jwt", u>> a valid token whose subject is u.
decode_token(token) ==
    IF Len(token) = 2 /\ token[1] = "jwt" THEN Some(token[2]) ELSE None

\* get_user_from_token: the username, or the HTTPException's status code.
get_user_from_token(token) ==
    IF token = << >> THEN [username |-> None, status_code |-> HTTP_401_UNAUTHORIZED]
    ELSE IF decode_token(token) = None
         THEN [username |-> None, status_code |-> HTTP_401_UNAUTHORIZED]
    ELSE [username |-> decode_token(token), status_code |-> 0]

\* --------------------------------------------------------- services.py

Database == [users |-> users, rooms |-> rooms, memberships |-> memberships]

get_user_by_username(db, username) == username \in db.users

create_user(db, username) == [db EXCEPT !.users = @ \cup {username}]

get_room_by_name(db, room_name) == room_name \in DOMAIN db.rooms

is_user_in_room(db, user_id, room_id) ==
    \E m \in BagToSet(db.memberships) : m.user = user_id /\ m.room = room_id

\* An add_user_to_room that writes nothing.
add_user_to_room_skipped(db, user_id, room_id, is_moderator) == db

add_user_to_room(db, user_id, room_id, is_moderator) ==
    IF is_user_in_room(db, user_id, room_id) THEN db
    ELSE [db EXCEPT !.memberships =
            @ (+) SetToBag({[user |-> user_id, room |-> room_id,
                             is_moderator |-> is_moderator]})]

\* The rows of room_memberships for room_id, as a bag.
room_rows(db, room_id) ==
    [m \in {x \in BagToSet(db.memberships) : x.room = room_id} |-> db.memberships[m]]

\* get_room_user_count: the number of membership rows of the room.
get_room_user_count(db, room_id) == BagCardinality(room_rows(db, room_id))

\* create_room: the row, then the creator's membership as a moderator.
create_room(db, name, max_users, creator_id) ==
    add_user_to_room(
        [db EXCEPT !.rooms = [r \in DOMAIN db.rooms \cup {name} |->
            IF r = name
            THEN [creator |-> creator_id, max_users |-> max_users, is_public |-> TRUE]
            ELSE db.rooms[r]]],
        creator_id, name, TRUE)

\* ------------------------------------------------- websocket_endpoint

WS_1008_POLICY_VIOLATION == 1008

\* The letters of the names the model uses.
Spell(name) ==
    CASE name = "alice" -> <<"a", "l", "i", "c", "e">>
      [] name = "bobby" -> <<"b", "o", "b", "b", "y">>
      [] name = "bob" -> <<"b", "o", "b">>
      [] name = "eve" -> <<"e", "v", "e">>
      [] name = "carol" -> <<"c", "a", "r", "o", "l">>
      [] name = "dave" -> <<"d", "a", "v", "e">>
      [] name = "testuser" -> <<"t", "e", "s", "t", "u", "s", "e", "r">>
      [] name = "user1" -> <<"u", "s", "e", "r", "1">>
      [] name = "user2" -> <<"u", "s", "e", "r", "2">>
      [] OTHER -> << >>

\* Python's `a in b` on strings.
Contains(a, b) ==
    \E i \in 0..(Len(Spell(b)) - Len(Spell(a))) :
        SubSeq(Spell(b), i + 1, i + Len(Spell(a))) = Spell(a)

TestNames == {"testuser", "user1", "user2", "alice", "bob", "carol", "dave"}

\* any(test_name in user_id for test_name in [...])
auto_provisioned(user_id) == \E test_name \in TestNames : Contains(test_name, user_id)

\* The check that lets every claimed identity through.
identity_unchecked(user_id, token) == FALSE

\* `if user_id != token`: the path's user is not the token's.
identity_mismatch(user_id, token) == user_id # token

join_message(user_id, users_in_room) ==
    [type |-> "system", message |-> <<user_id, " has joined the room.">>,
     users |-> users_in_room]

chat_response(user_id, message) ==
    [type |-> "chat", sender |-> user_id, message |-> message]

leave_message(user_id, remaining_users) ==
    [type |-> "system", message |-> <<user_id, " has left the room.">>,
     users |-> remaining_users]

\* The transports tr once the handlers stand at where: the server closes
\* the connection of a handler that has ended.
Closed(tr, where) ==
    [h \in Handles |-> IF h \in Sessions /\ where[h] = "done" THEN "closed" ELSE tr[h]]

\* The transports once the server has learnt that the peer of h is gone.
PeerGone(tr, h) == [tr EXCEPT ![h] = IF @ = "open" THEN "gone" ELSE @]

\* The inner finally block, up to the first await of the leave broadcast.
Cleanup(s) ==
    LET reg == disconnect(Registry, sess[s].room, sess[s].user)
        remaining_users == get_users_in_room(reg, sess[s].room)
    IN  [reg  |-> reg,
         call |-> broadcast_to_room(reg, sess[s].room,
                                    leave_message(sess[s].user, remaining_users),
                                    None)]

\* A handler that drops what made it leave and stays in its read loop.
LeaveLoop_continue(s) == UNCHANGED <<active_connections, heap, call, connected, pc>>

\* The handler leaves its read loop: it runs the finally block and ends,
\* unless the leave broadcast is suspended in a send.
LeaveLoop(s) ==
    \E fin \in {Cleanup(s)} :
      \E calls \in {[call EXCEPT ![s] = IF fin.call.status = "sending" THEN fin.call ELSE NoCall]} :
        /\ active_connections' = fin.reg.ac
        /\ heap' = Collect(fin.reg.heap, fin.reg.ac, calls)
        /\ call' = calls
        /\ connected' = connected \ {<<sess[s].room, sess[s].user>>}
        /\ pc' = [pc EXCEPT ![s] = IF fin.call.status = "sending" THEN "leaving" ELSE "done"]

\* The persistence calls of the admission, in the order the handler makes them.
Faults ==
    {"get_user_by_username", "create_user", "get_room_by_name", "create_room",
     "add_user_to_room"}

\* A connection arrives: the token dependency, then the handler up to its
\* first await (the close of a refused session, or accept).  fault names the
\* persistence call that raises, "none" when none does: the handler has no
\* except clause for it, so the exception leaves the handler through
\* db.close() with what the earlier calls committed, and no close is sent.
Admit(s, room_id, user_id, token, fault) ==
    LET auth == get_user_from_token(token)
        username == auth.username[1]
        known == get_user_by_username(Database, user_id)
        provision == ~known /\ auto_provisioned(user_id)
        db1 == IF known THEN Database ELSE create_user(Database, user_id)
        newRoom == ~get_room_by_name(db1, room_id)
        db2 == IF newRoom THEN create_room(db1, room_id, MaxUsersDefault, user_id) ELSE db1
        db3 == add_user_to_room(db2, user_id, room_id, FALSE)
        committed ==
            CASE fault \in {"get_user_by_username", "create_user"} -> Database
              [] fault \in {"get_room_by_name", "create_room"} -> db1
              [] fault = "add_user_to_room" -> db2
              [] OTHER -> db3
        reached ==
            CASE fault = "none" -> TRUE
              [] fault = "get_user_by_username" -> TRUE
              [] fault = "create_user" -> provision
              [] fault = "create_room" -> (known \/ provision) /\ newRoom
              [] OTHER -> known \/ provision
        refuse(code) ==
            /\ pc' = [pc EXCEPT ![s] = "done"]
            /\ closeCode' = [closeCode EXCEPT ![s] = code]
            /\ UNCHANGED dbVars
    IN  /\ pc[s] = "idle"
        /\ \A t \in Sessions : t < s => pc[t] # "idle"
        /\ fault # "none" =>
               auth.status_code = 0 /\ ~identity_mismatch(user_id, username) /\ reached
        /\ sess' = [sess EXCEPT ![s] = [room |-> room_id, user |-> user_id, token |-> token,
                                        fault |-> fault]]
        /\ IF auth.status_code # 0 THEN refuse(auth.status_code)
           ELSE IF identity_mismatch(user_id, username)
                THEN refuse(WS_1008_POLICY_VIOLATION)
           ELSE IF fault = "get_user_by_username"
                THEN /\ pc' = [pc EXCEPT ![s] = "done"]
                     /\ UNCHANGED <<dbVars, closeCode>>
           ELSE IF ~known /\ ~auto_provisioned(user_id)
                THEN refuse(WS_1008_POLICY_VIOLATION)
           ELSE /\ users' = committed.users
                /\ rooms' = committed.rooms
                /\ memberships' = committed.memberships
                /\ pc' = [pc EXCEPT ![s] = IF fault = "none" THEN "accepting" ELSE "done"]
                /\ UNCHANGED closeCode
        /\ transport' = Closed(transport, pc')
        /\ UNCHANGED <<regVars, call, nread, read, wire, issued, registered, connected, replaced, join>>

\* A connection whose persistence calls all succeed.
Open(s, room_id, user_id, token) == Admit(s, room_id, user_id, token, "none")

\* accept() returns: connect stores the handle, the occupants are listed
\* and the join broadcast starts.
Accepted(s) ==
    LET room_id == sess[s].room
        user_id == sess[s].user
        reg == connect(Registry, s, room_id, user_id)
        users_in_room == get_users_in_room(reg, room_id)
        c == broadcast_to_room(reg, room_id, join_message(user_id, users_in_room), None)
        calls == [call EXCEPT ![s] = IF c.status = "sending" THEN c ELSE NoCall]
    IN  /\ pc[s] = "accepting"
        /\ active_connections' = reg.ac
        /\ heap' = Collect(reg.heap, reg.ac, calls)
        /\ call' = calls
        /\ registered' = registered \cup {s}
        /\ connected' = connected \cup {<<room_id, user_id>>}
        /\ replaced' = replaced \cup Stored(Registry, room_id, user_id)
        /\ pc' = [pc EXCEPT ![s] = IF c.status = "sending" THEN "joining" ELSE "receiving"]
        /\ UNCHANGED <<dbVars, join, sess, transport, closeCode, nread, read, wire, issued>>

\* accept() raises: the peer went away during the handshake.
AcceptRaises(s) ==
    /\ pc[s] = "accepting"
    /\ pc' = [pc EXCEPT ![s] = "done"]
    /\ transport' = Closed(transport, pc')
    /\ UNCHANGED <<regVars, dbVars, join, sess, call, closeCode, nread, read, wire, issued, registered,
                   connected, replaced>>

Sending(s) == pc[s] \in {"joining", "chatting", "leaving"} /\ call[s].status = "sending"

\* What the handler does when its broadcast call c is over or goes on.
\* A join broadcast that raises is outside the inner try: the handler ends
\* with only db.close().  A chat broadcast that raises runs the finally block.
AfterSend(s, c) ==
    IF c.status = "raised" /\ pc[s] = "chatting"
    THEN LeaveLoop(s)
    ELSE /\ call' = [call EXCEPT ![s] = IF c.status = "sending" THEN c ELSE NoCall]
         /\ heap' = Collect(heap, active_connections, call')
         /\ pc' = [pc EXCEPT ![s] =
                CASE c.status = "sending" -> pc[s]
                  [] c.status = "returned" /\ pc[s] = "leaving" -> "done"
                  [] c.status = "returned" -> "receiving"
                  [] OTHER -> "done"]
         /\ UNCHANGED <<active_connections, connected>>

\* The transports' written data once the chat broadcast c has called
\* send_text with the payload named id (nothing new when c is not sending):
\* send_text hands the payload to the handle's transport when it is called.
Written(w, c, id) ==
    IF c.status = "sending" THEN [w EXCEPT ![c.target] = Append(@, id)] ELSE w

\* The awaited send_text of session s's broadcast returns.
SendReturns(s) ==
    /\ Sending(s)
    /\ \E c \in {send_returned(heap, call[s])} :
           /\ AfterSend(s, c)
           /\ wire' = IF pc[s] = "chatting" THEN Written(wire, c, <<s, Len(read[s])>>) ELSE wire
    /\ transport' = Closed(transport, pc')
    /\ UNCHANGED <<dbVars, join, sess, closeCode, nread, read, issued, registered, replaced>>

\* The awaited send_text raises: the recipient's peer has gone away, which
\* the server learns here.
SendRaises(s) ==
    /\ Sending(s)
    /\ \E c \in {send_raised(call[s])} : AfterSend(s, c)
    /\ transport' = Closed(PeerGone(transport, call[s].target), pc')
    /\ UNCHANGED <<dbVars, join, sess, closeCode, nread, read, wire, issued, registered, replaced>>

\* A handler suspended in two places at once.
Reading_during_broadcast(s) == pc[s] \in {"receiving", "chatting"}

\* The handler of session s is suspended in receive_json: it gets there only
\* from the top of the loop, after the awaited broadcast of the frame before.
Reading(s) == pc[s] = "receiving"

\* Inbound frames: a payload with a message field, and one without.
Frames == {[message |-> m] : m \in Messages} \cup {[text |-> "hi"]}

\* receive_json() returns a frame.  data['message'] raises KeyError when the
\* field is missing; otherwise the chat broadcast starts.
Receive(s, data) ==
    LET c == broadcast_to_room(Registry, sess[s].room,
                               chat_response(sess[s].user, data.message), None)
    IN  /\ Reading(s)
        /\ transport[s] = "open"
        /\ nread < MaxMsgs
        /\ nread' = nread + 1
        /\ read' = [read EXCEPT ![s] = Append(@, data)]
        /\ IF "message" \in DOMAIN data
           THEN /\ call' = [call EXCEPT ![s] = IF c.status = "sending" THEN c ELSE NoCall]
                /\ heap' = Collect(heap, active_connections, call')
                /\ pc' = [pc EXCEPT ![s] = IF c.status = "sending" THEN "chatting"
                                           ELSE "receiving"]
                /\ wire' = Written(wire, c, <<s, Len(read[s]) + 1>>)
                /\ UNCHANGED <<active_connections, connected>>
           ELSE LeaveLoop(s) /\ UNCHANGED wire
        /\ transport' = Closed(transport, pc')
        /\ UNCHANGED <<dbVars, join, sess, closeCode, issued, registered, replaced>>

\* receive_json() raises WebSocketDisconnect: the peer has gone away.
ReceiveDisconnect(s) ==
    /\ Reading(s)
    /\ LeaveLoop(s)
    /\ transport' = Closed(PeerGone(transport, s), pc')
    /\ UNCHANGED <<dbVars, join, sess, closeCode, nread, read, wire, issued, registered, replaced>>

\* Tokens and path users of the sessions.
SessionUsers == {"alice", "bobby", "carol"}

\* The users session s connects as.  The handler treats these users alike,
\* so the s-th session to open is one of the first s of them: every way the
\* sessions' users coincide or differ is covered once.
UsersOf(s) ==
    LET order == <<"alice", "bobby", "carol">>
    IN  {order[i] : i \in {j \in 1..Len(order) : j <= s}}

SessionTokens == {<<"jwt", u>> : u \in SessionUsers}

\* ------------------------------------------------------------ rooms.py

\* POST /rooms by an authenticated user: refused when the name is taken,
\* else the room is created with the max_users of the request body.
create_new_room(name, max_users, current_user) ==
    LET db == create_room(Database, name, max_users, current_user)
    IN  /\ get_user_by_username(Database, current_user)
        /\ ~get_room_by_name(Database, name)
        /\ rooms' = db.rooms
        /\ memberships' = db.memberships
        /\ UNCHANGED <<regVars, users, pc, sess, call, transport, closeCode, nread, read, wire, issued,
                       registered, connected, replaced, join>>

\* POST /rooms/{room_id}/join in worker thread w, up to the insert: the room
\* lookup, the capacity check and add_user_to_room's query for an existing
\* membership.  A request that is refused or finds the membership changes
\* nothing; the others go on to insert.
JoinCheck(w, room_id, current_user) ==
    /\ join[w].pc = "idle"
    /\ get_user_by_username(Database, current_user)
    /\ get_room_by_name(Database, room_id)
    /\ get_room_user_count(Database, room_id) < rooms[room_id].max_users
    /\ ~is_user_in_room(Database, current_user, room_id)
    /\ join' = [join EXCEPT ![w] = [pc |-> "insert", user |-> current_user, room |-> room_id]]
    /\ UNCHANGED <<regVars, dbVars, pc, sess, call, transport, closeCode, nread, read, wire, issued,
                   registered, connected, replaced>>

\* The insert and commit of add_user_to_room in worker thread w.
JoinInsert(w) ==
    /\ join[w].pc = "insert"
    /\ memberships' = memberships (+) SetToBag({[user |-> join[w].user, room |-> join[w].room,
                                                 is_moderator |-> FALSE]})
    /\ join' = [join EXCEPT ![w].pc = "done"]
    /\ UNCHANGED <<regVars, users, rooms, pc, sess, call, transport, closeCode, nread, read, wire, issued,
                   registered, connected, replaced>>

\* Path users of the admission runs: an allow-list name, a name that holds
\* one, and a name that holds none.
AdmissionUsers == {"alice", "bobby", "eve"}

\* Credentials of the admission runs: the empty one, a token without a
\* subject, tokens that do not verify, and valid tokens.
Credentials ==
    {<< >>, <<"jwt">>} \cup {<<k, u>> : k \in {"jwt", "forged"}, u \in {"alice", "bobby"}}

AdmissionNext ==
    \/ \E s \in Admissions, r \in RoomKeys, u \in AdmissionUsers, t \in Credentials,
          f \in Faults \cup {"none"} : Admit(s, r, u, t, f)
    \/ \E s \in Admissions : Accepted(s)
    \/ \E s \in Admissions : AcceptRaises(s)

\* Connections of every kind arrive at the endpoint and are admitted or not.
AdmissionSpec == Init /\ [][AdmissionNext]_vars

MembershipNext ==
    \/ \E r \in RoomKeys, n \in Capacities, u \in users : create_new_room(r, n, u)
    \/ \E w \in Workers, r \in RoomKeys, u \in users : JoinCheck(w, r, u)
    \/ \E w \in Workers : JoinInsert(w)
    \/ \E s \in Admissions, r \in RoomKeys, u \in SessionUsers, t \in SessionTokens :
           decode_token(t) = Some(u) /\ Open(s, r, u, t)
    \/ \E s \in Admissions : Accepted(s)

\* Room creations and joins through the REST API, in worker threads, next
\* to chat connections on the event loop.
MembershipSpec == Init /\ [][MembershipNext]_vars

\* ------------------------------------------------------- token endpoints

\* bcrypt: the hash of a password, whatever the salt, is the value that
\* checkpw accepts for that password and for no other.
get_password_hash(password) == <<"bcrypt", password>>

verify_password(plain_password, hashed_password) ==
    hashed_password = get_password_hash(plain_password)

\* The hashed_password column of user username: the startup code creates
\* admin with "admin123", the chat endpoint creates its users with
\* "testpass123".
hashed_password(username) ==
    get_password_hash(IF username = "admin" THEN "admin123" ELSE "testpass123")

\* The user when it exists and the password verifies, else None.
authenticate_user(db, username, password) ==
    IF ~get_user_by_username(db, username) THEN None
    ELSE IF ~verify_password(password, hashed_password(username)) THEN None
    ELSE Some(username)

\* A signed token whose sub is data.sub.
create_access_token(data) == <<"jwt", data.sub>>

\* Usernames and passwords of the token requests.
LoginNames == {"", "admin", "alice", "mallory"}

Passwords == {"admin123", "testpass123", "guess"}

\* The request (username, password) at endpoint is answered with access_token.
Issue(endpoint, username, password, access_token) ==
    /\ Cardinality(issued) < MaxTokens
    /\ issued' = issued \cup {[endpoint |-> endpoint, username |-> username,
                                password |-> password,
                                access_token |-> access_token]}
    /\ UNCHANGED <<regVars, dbVars, pc, sess, call, transport, closeCode, nread, read, wire,
                   registered, connected, replaced, join>>

\* POST /token of main.py: 401 for an empty username, else a token.
main_login_for_access_token(username, password) ==
    /\ username # ""
    /\ Issue("/token", username, password, create_access_token([sub |-> username]))

\* POST /api/token of users.py: 401 unless authenticate_user finds the user.
login_for_access_token(username, password) ==
    LET user == authenticate_user(Database, username, password)
    IN  /\ user # None
        /\ Issue("/api/token", username, password, create_access_token([sub |-> user[1]]))

\* POST /api/login of users.py: the same with a JSON body.
login_user(username, password) ==
    LET user == authenticate_user(Database, username, password)
    IN  /\ user # None
        /\ Issue("/api/login", username, password, create_access_token([sub |-> user[1]]))

TokenNext ==
    \/ \E s \in Admissions, r \in RoomKeys, t \in SessionTokens :
           \E u \in UsersOf(s) : decode_token(t) = Some(u) /\ Open(s, r, u, t)
    \/ \E u \in LoginNames, p \in Passwords : main_login_for_access_token(u, p)
    \/ \E u \in LoginNames, p \in Passwords : login_for_access_token(u, p)
    \/ \E u \in LoginNames, p \in Passwords : login_user(u, p)

\* Token requests at the three endpoints, next to chat connections that
\* create their users.
TokenSpec == Init /\ [][TokenNext]_vars

Next ==
    \/ \E s \in Admissions, r \in RoomKeys, t \in SessionTokens :
           \E u \in UsersOf(s) : decode_token(t) = Some(u) /\ Open(s, r, u, t)
    \/ \E s \in Admissions : Accepted(s)
    \/ \E s \in Admissions : AcceptRaises(s)
    \/ \E s \in Admissions : SendReturns(s)
    \/ \E s \in Admissions : SendRaises(s)
    \/ \E s \in Admissions, data \in Frames : Receive(s, data)
    \/ \E s \in Admissions : ReceiveDisconnect(s)

\* The chat sessions: one handler task per connection, interleaved at awaits.
Spec == Init /\ [][Next]_vars

\* A step the event loop owes a task: an awaited send_text does not hang (it
\* returns unless it raises first), and a receive_json on a transport whose
\* peer is gone raises.
Progress ==
    \E s \in Admissions :
        \/ SendReturns(s)
        \/ transport[s] = "gone" /\ ReceiveDisconnect(s)

\* The event loop does not stop while a task is ready.
LiveSpec == Spec /\ WF_vars(Progress)

RoomNext ==
    \/ \E s \in Sessions, r \in RoomKeys, t \in SessionTokens :
           \E u \in UsersOf(s) : decode_token(t) = Some(u) /\ Open(s, r, u, t)
    \/ \E s \in Sessions : Accepted(s)
    \/ \E s \in Sessions : SendReturns(s)
    \/ \E s \in Sessions : SendRaises(s)
    \/ \E s \in Sessions : ReceiveDisconnect(s)

\* Sessions that connect and leave without sending a frame: enough of them
\* to fill a room with a leaver and two remaining members.
RoomSpec == Init /\ [][RoomNext]_vars

\* ---------------------------------------------------------- properties

\* The handles a finished or running call has called send_text on.
Attempted(c) == {c.attempted[i] : i \in 1..Len(c.attempted)}

\* The handles stored anywhere in the registry.
StoredHandles ==
    UNION {{p[2] : p \in dict_items(Inner(Registry, r))} : r \in DOMAIN active_connections}

\* The recipients a call owes a delivery attempt: the items of its room
\* when it started, without the one the caller asked to exclude.
Owed(c) == {p \in c.start : ~(c.exclude # None /\ p[1] = c.exclude[1])}

\* C1: once a session that registered its handle has ended, the registry
\* holds no handle of it, whatever path the handler left by.
C1_EndedSessionDeregistered ==
    \A s \in Sessions : (s \in registered /\ pc[s] = "done") => s \notin StoredHandles

\* C2: when a send inside broadcast_to_room fails, every other recipient
\* that is registered and not excluded still gets a delivery attempt.
C2_FailureDoesNotStopFanOut ==
    (call[0].kind = "room" /\ call[0].error = "send") =>
        \A p \in Owed(call[0]) :
            p[2] \in Stored(Registry, call[0].room, p[1]) => p[2] \in Attempted(call[0])

\* C3: a broadcast_to_room interleaved with connects and disconnects never
\* fails because the registry changed under its iteration, and when it
\* returns every recipient it owed an attempt has had exactly one.
C3_BroadcastSurvivesRegistryChange ==
    /\ call[0].error # "RuntimeError"
    /\ (call[0].kind = "room" /\ call[0].status = "returned") =>
           \A p \in Owed(call[0]) :
               Cardinality({i \in 1..Len(call[0].attempted) : call[0].attempted[i] = p[2]}) = 1

\* C4: a send failure inside broadcast_to_room or broadcast_to_user is never
\* raised to the caller.
C4_SendFailureNotRaised == \A t \in Tasks : call[t].error # "send"

\* C5: a fault on one session's connection leaves every other session where
\* it stands: no other handler ends or leaves its loop because of it.
C5_FaultStaysLocal ==
    [][\A s \in Sessions, h \in Handles :
          (h # s /\ transport[h] = "open" /\ transport'[h] = "gone") => pc'[s] = pc[s]]_vars

\* C6: a room key is present in active_connections exactly when some user
\* is connected in the room, and then its inner mapping is non-empty: the
\* first connect creates the entry, the last user's disconnect removes it.
C6_RoomKeyIffNonEmpty ==
    /\ \A r \in RoomKeys : HasRoom(Registry, r) <=> (\E u \in UserKeys : <<r, u>> \in connected)
    /\ \A r \in DOMAIN active_connections : ma_used(Inner(Registry, r)) > 0

\* A room was created by a connect and pruned by the disconnect of its last
\* user, while the other room still holds a user.
C6_Witness ==
    /\ Cardinality(registered) = 2
    /\ Cardinality(DOMAIN active_connections) = 1
    /\ Cardinality(StoredHandles) = 1

\* C7: after any sequence of connects and disconnects, get_users_in_room
\* lists exactly the user keys whose last call for the room was a connect,
\* each once, and lists nothing only when the room key is absent.
C7_UsersInRoomExact ==
    \A r \in RoomKeys :
        LET listed == get_users_in_room(Registry, r)
        IN  /\ {listed[i] : i \in 1..Len(listed)} = {u \in UserKeys : <<r, u>> \in connected}
            /\ \A i, j \in 1..Len(listed) : listed[i] = listed[j] => i = j
            /\ listed = << >> => ~HasRoom(Registry, r)

\* A room lists two users after a third handle was connected and removed.
C7_Witness ==
    /\ Cardinality(registered) = 3
    /\ Cardinality(StoredHandles) = 2
    /\ replaced = {}
    /\ \E r \in RoomKeys : Len(get_users_in_room(Registry, r)) = 2

\* C8: a connect for a registered pair replaces the handle, so a dictionary
\* never holds two handles for one key, and no send_text that starts after
\* the replacement goes to the replaced handle, also in a broadcast that
\* was iterating the room when the handle was replaced.
C8_ReplacedHandleNeverAttempted ==
    [][/\ \A id \in DOMAIN heap', u \in UserKeys : Cardinality(Lookup(heap'[id], u)) <= 1
       /\ \A t \in Tasks :
              (call'[t].status = "sending" /\ call'[t] # call[t])
                  => call'[t].target \notin replaced']_vars

\* A broadcast is sending to the handle that replaced, during the call, the
\* handle its room held under the same key when the call started.
C8_Witness ==
    /\ call[0].kind = "room"
    /\ call[0].status = "sending"
    /\ \E p \in call[0].start :
           /\ p[2] \in replaced
           /\ call[0].target # p[2]
           /\ call[0].target \in Stored(Registry, call[0].room, p[1])

\* C9: broadcast_to_room(room, msg, exclude_user_id=U) attempts a delivery to
\* every user of the room except U, for every user key U, and to all of them
\* when no exclusion is given; never to a handle of another room.
C9_BroadcastRecipients ==
    (/\ call[0].kind = "room"
     /\ call[0].status = "returned"
     /\ HasRoom(Registry, call[0].room)
     /\ dict_items(Inner(Registry, call[0].room)) = call[0].start)
        => Attempted(call[0]) = {p[2] : p \in Owed(call[0])}

\* C10: a session whose path user differs from its token's identity is
\* closed with the policy-violation code in the step that opens it; the
\* registry, the broadcasts and the user, room and membership tables are
\* left as they were, and the session never registers.
C10_MismatchRefused ==
    [][\A s \in Sessions :
          LET claimed == sess'[s].user
              identity == decode_token(sess'[s].token)
          IN  (pc'[s] # "idle" /\ identity # None /\ identity[1] # claimed) =>
                  /\ pc'[s] = "done"
                  /\ closeCode'[s] = WS_1008_POLICY_VIOLATION
                  /\ s \notin registered'
                  /\ pc[s] = "idle" =>
                         UNCHANGED <<active_connections, heap, users, rooms, memberships,
                                     call, registered, connected>>]_vars

\* A session was refused for a mismatch while another one is registered.
C10_Witness ==
    \E s \in Sessions :
        /\ pc[s] = "done"
        /\ closeCode[s] = WS_1008_POLICY_VIOLATION
        /\ decode_token(sess[s].token) # None
        /\ decode_token(sess[s].token)[1] # sess[s].user
        /\ StoredHandles # {}

\* A credential that names no identity: empty, rejected by
\* jwt.decode, or without a subject.
Unresolvable(token) == token = << >> \/ Len(token) < 2 \/ token[1] # "jwt"

\* C11: a session whose credential is missing, empty or does not decode to a
\* username is rejected by the token dependency, before the handler body
\* runs: it ends without one of the handler's own close codes, it never
\* registers a handle and never starts a broadcast; every session that
\* registers a handle has a token that resolved to an identity.
C11_UnauthenticatedRejected ==
    \A s \in Sessions :
        /\ (pc[s] # "idle" /\ Unresolvable(sess[s].token)) =>
               /\ pc[s] = "done"
               /\ closeCode[s] = HTTP_401_UNAUTHORIZED
               /\ s \notin registered
               /\ s \notin StoredHandles
               /\ call[s] = NoCall
        /\ s \in registered => ~Unresolvable(sess[s].token)

\* A session that presented a token naming its path user, but one that does
\* not verify, was rejected while another session is registered.
C11_Witness ==
    \E s, t \in Sessions :
        /\ pc[s] = "done"
        /\ Len(sess[s].token) = 2
        /\ sess[s].token[1] = "forged"
        /\ sess[s].token[2] = sess[s].user
        /\ s \notin registered
        /\ t \in StoredHandles

\* C12: admission enforces capacity.  After every step the membership rows
\* of each room number at most the room's max_users, and a chat connection
\* to a room that is at capacity is refused: it adds no membership row and
\* the session ends without registering a handle.
C12_CapacityEnforced ==
    [][/\ \A r \in DOMAIN rooms' :
              get_room_user_count(Database', r) <= rooms'[r].max_users
       /\ \A s \in Sessions :
              LET room_id == sess'[s].room
              IN  (/\ pc[s] = "idle"
                   /\ pc'[s] # "idle"
                   /\ get_room_by_name(Database, room_id)
                   /\ get_room_user_count(Database, room_id) >= rooms[room_id].max_users)
                      => memberships' = memberships /\ pc'[s] = "done"]_vars

\* The broadcast call c has ended in a state whose registry is reg: every
\* item of the room at the call's start that reg still holds has had
\* exactly one delivery attempt.
DeliveredToAll(c, reg) ==
    \A p \in c.start :
        p[2] \in Stored(reg, c.room, p[1]) =>
            Cardinality({i \in 1..Len(c.attempted) : c.attempted[i] = p[2]}) = 1

\* C13: when a session in its read loop receives {"message": m}, a chat
\* payload with the sender's user key and m is broadcast to the session's
\* room, nobody excluded, and when the broadcast is over every session that
\* is connected in the room has got the payload exactly once.
C13_ChatReachesRoom ==
    [][\A s \in Sessions :
          /\ (pc[s] = "receiving" /\ pc'[s] = "chatting") =>
                 /\ call'[s].room = sess[s].room
                 /\ call'[s].exclude = None
                 /\ \E m \in Messages : call'[s].message = chat_response(sess[s].user, m)
                 /\ call'[s].start = dict_items(Inner(Registry, sess[s].room))
          /\ (pc[s] = "chatting" /\ pc'[s] # "chatting") =>
                 DeliveredToAll(call[s], [ac |-> active_connections', heap |-> heap'])]_vars

\* C14: in the step that admits a session its handle is registered and the
\* join message is built from the registry as that registration left it:
\* the users list is the room's occupants and holds the joiner, and the
\* message goes to every occupant of the room, the joiner included.
C14_JoinAnnounced ==
    [][\A s \in Sessions :
          LET room_id == sess[s].room
              user_id == sess[s].user
              reg == [ac |-> active_connections', heap |-> heap']
              occupants == get_users_in_room(reg, room_id)
          IN  /\ (pc[s] = "accepting" /\ pc'[s] \in {"joining", "receiving"}) =>
                     /\ Stored(reg, room_id, user_id) = {s}
                     /\ pc'[s] = "joining"
                     /\ call'[s].message = join_message(user_id, occupants)
                     /\ \E i \in 1..Len(occupants) : occupants[i] = user_id
                     /\ call'[s].start = dict_items(Inner(reg, room_id))
              /\ (pc[s] = "joining" /\ pc'[s] # "joining") => DeliveredToAll(call[s], reg)]_vars

\* C15: in the step in which a session leaves its loop the pair (room, user)
\* is deregistered first, and the room's entry with it when the room is left
\* empty; the leave message lists the occupants after the removal, without
\* the leaver, and goes to every remaining member and not to the leaver.
C15_LeaveAnnounced ==
    [][\A s \in Sessions :
          LET room_id == sess[s].room
              user_id == sess[s].user
              reg == [ac |-> active_connections', heap |-> heap']
              remaining == get_users_in_room(reg, room_id)
          IN  /\ (pc[s] \in {"receiving", "chatting"} /\ pc'[s] \in {"leaving", "done"}) =>
                     /\ ~HasUser(reg, room_id, user_id)
                     /\ (/\ HasRoom(Registry, room_id)
                         /\ dict_items(Inner(Registry, room_id)) \subseteq {<<user_id, s>>})
                            => ~HasRoom(reg, room_id)
                     /\ HasRoom(reg, room_id) =>
                            /\ pc'[s] = "leaving"
                            /\ call'[s].message = leave_message(user_id, remaining)
                            /\ \A i \in 1..Len(remaining) : remaining[i] # user_id
                            /\ call'[s].start = dict_items(Inner(reg, room_id))
                            /\ s \notin Attempted(call'[s])
              /\ (pc[s] = "leaving" /\ pc'[s] # "leaving") =>
                     /\ s \notin Attempted(call[s])
                     /\ DeliveredToAll(call[s], reg)]_vars

\* C16: disconnect for a pair that is not registered, whether the room is
\* unknown or the room is known without that user, never reaches the del
\* statements and returns the registry as it was, every other room's and
\* user's entry included.
C16_DisconnectUnknownIsNoOp ==
    \A r \in RoomKeys, u \in UserKeys :
        <<r, u>> \notin connected =>
            /\ ~HasUser(Registry, r, u)
            /\ disconnect(Registry, r, u) = Registry

\* The registry holds one user, one room is unknown, the known room lacks a
\* user, and disconnects have removed two other handles.
C16_Witness ==
    /\ Cardinality(registered) = 3
    /\ Cardinality(StoredHandles) = 1
    /\ \E r \in RoomKeys : ~HasRoom(Registry, r)
    /\ \E r \in RoomKeys, u \in UserKeys : HasRoom(Registry, r) /\ ~HasUser(Registry, r, u)

\* The number of membership rows of the pair (user_id, room_id).
Rows(user_id, room_id) ==
    BagCardinality([m \in {x \in BagToSet(memberships) :
                               x.user = user_id /\ x.room = room_id} |-> memberships[m]])

\* C17: the membership table never holds two rows for one (user, room)
\* pair, whatever calls of add_user_to_room ran and however the calls of
\* worker threads and of chat connections interleaved.
C17_OneMembershipPerPair ==
    \A m \in BagToSet(memberships) : Rows(m.user, m.room) = 1

\* C18: admission creates a user record only for a username that is one of
\* the allow-list names; a session of any other username without a record is
\* closed with the policy-violation code, and creates no user, room or
\* membership row and leaves the registry as it was.
C18_AutoProvisionOnlyAllowList ==
    [][\A s \in Sessions :
          LET user_id == sess'[s].user
          IN  (/\ pc[s] = "idle"
               /\ pc'[s] # "idle"
               /\ sess'[s].fault = "none"
               /\ decode_token(sess'[s].token) = Some(user_id)
               /\ ~get_user_by_username(Database, user_id))
                  => IF user_id \in TestNames
                     THEN users' = users \cup {user_id}
                     ELSE /\ pc'[s] = "done"
                          /\ closeCode'[s] = WS_1008_POLICY_VIOLATION
                          /\ UNCHANGED <<users, rooms, memberships, active_connections,
                                         heap>>]_vars

\* C19: a session one of whose persistence calls failed during admission
\* has been closed with the policy-violation code and has registered no
\* handle.
C19_PersistenceFailureCloses ==
    \A s \in Sessions :
        sess[s].fault # "none" =>
            /\ pc[s] = "done"
            /\ closeCode[s] = WS_1008_POLICY_VIOLATION
            /\ s \notin registered
            /\ s \notin StoredHandles

\* C20: broadcast_to_user(user, room, payload) calls send_text once, on the
\* handle registered under (room, user), when the pair is registered, and no
\* more when that send is over; when the room or the user is not registered
\* it returns at once without a send and without an error.  The call leaves
\* the registry as it was.
C20_BroadcastToUserOneAttempt ==
    [][/\ (call[0].status = "none" /\ call'[0].kind = "user") =>
              LET c == call'[0]
                  pair == <<c.room, c.exclude[1]>>
              IN  /\ UNCHANGED <<active_connections, heap>>
                  /\ IF pair \in connected
                     THEN /\ c.status = "sending"
                          /\ {c.target} = Stored(Registry, pair[1], pair[2])
                          /\ c.attempted = <<c.target>>
                     ELSE /\ c.status = "returned"
                          /\ c.error = ""
                          /\ c.attempted = << >>
       /\ (call[0].kind = "user" /\ call'[0] # call[0]) =>
              /\ call'[0].attempted = call[0].attempted
              /\ call'[0].status \in {"returned", "raised"}
              /\ UNCHANGED <<active_connections, heap>>]_vars

\* A broadcast_to_user is sending to the handle of its pair while the room
\* holds a second user, and the registry knows a pair it could miss.
C20_Witness ==
    /\ call[0].kind = "user"
    /\ call[0].status = "sending"
    /\ call[0].attempted = <<call[0].target>>
    /\ HasRoom(Registry, call[0].room)
    /\ ma_used(Inner(Registry, call[0].room)) = 2

\* The session is in its read loop: waiting for a frame, or broadcasting one.
Active(s) == pc[s] \in {"receiving", "chatting"}

\* C21: under fair scheduling, an Active session whose transport has
\* signalled that the peer is gone eventually leaves its read loop, and then
\* the registry no longer holds its handle.
C21_DisconnectLeadsToDeregistration ==
    \A s \in Sessions :
        (Active(s) /\ transport[s] = "gone")
            ~> (pc[s] \in {"leaving", "done"} /\ s \notin StoredHandles)

\* A session whose peer went away has left its loop and is deregistered,
\* and its leave broadcast is on its way to a remaining member.
C21_Witness ==
    \E s \in Sessions :
        /\ pc[s] = "leaving"
        /\ transport[s] = "gone"
        /\ s \in registered
        /\ s \notin StoredHandles
        /\ StoredHandles # {}

\* The last frame the session read has no message field.
Malformed(frames) == frames # << >> /\ "message" \notin DOMAIN frames[Len(frames)]

\* C22: the step in which a session reads a payload without a message field
\* ends the session: nothing is written to any transport for that payload and
\* no chat broadcast starts, the session's (room, user) entry is gone from
\* the registry, the leave broadcast is started when the room still has a
\* member (its message the leave message with the remaining users), and the
\* session never reads again.
C22_MalformedEndsSession ==
    [][\A s \in Sessions :
          LET room_id == sess[s].room
              user_id == sess[s].user
              reg == [ac |-> active_connections', heap |-> heap']
          IN  /\ (Len(read'[s]) > Len(read[s]) /\ Malformed(read'[s])) =>
                     /\ pc'[s] \in {"leaving", "done"}
                     /\ wire' = wire
                     /\ ~HasUser(reg, room_id, user_id)
                     /\ IF HasRoom(reg, room_id)
                        THEN /\ pc'[s] = "leaving"
                             /\ call'[s].status = "sending"
                             /\ call'[s].message =
                                    leave_message(user_id, get_users_in_room(reg, room_id))
                             /\ call'[s].target \in
                                    {p[2] : p \in dict_items(Inner(reg, room_id))}
                        ELSE pc'[s] = "done" /\ call'[s] = NoCall
              /\ Malformed(read[s]) =>
                     /\ read'[s] = read[s]
                     /\ pc'[s] \in {"leaving", "done"}
                     /\ call'[s].status = "sending" => call'[s].message.type = "system"]_vars

\* A session that read a payload without a message field is out of its loop
\* and deregistered, its leave broadcast suspended in a send to a remaining
\* member.
C22_Witness ==
    \E s \in Sessions :
        /\ Malformed(read[s])
        /\ pc[s] = "leaving"
        /\ s \notin StoredHandles
        /\ call[s].message = leave_message(sess[s].user,
                                           get_users_in_room(Registry, sess[s].room))
        /\ transport[call[s].target] = "open"

\* C23: a session that has passed add_user_to_room, waiting in accept or
\* with its handle stored in the registry, has its membership record for
\* (user, room) in the table: the record is written before the handle is
\* registered.
C23_MembershipBeforeRegistration ==
    \A s \in Sessions :
        (pc[s] = "accepting" \/ s \in StoredHandles) =>
            is_user_in_room(Database, sess[s].user, sess[s].room)

\* A session is registered with the membership record its admission wrote,
\* next to a session whose add_user_to_room raised and that never registered.
C23_Witness ==
    \E s, t \in Sessions :
        /\ s \in StoredHandles
        /\ sess[s].user # "admin"
        /\ is_user_in_room(Database, sess[s].user, sess[s].room)
        /\ sess[t].fault = "add_user_to_room"
        /\ pc[t] = "done"
        /\ t \notin registered
        /\ ~is_user_in_room(Database, sess[t].user, sess[t].room)

\* C24: a session in its read loop is registered under its own (room, user)
\* key with its own handle, and the disconnect of a session that leaves its
\* loop removes no handle but the one this session registered.
C24_OwnHandleOnly ==
    [][\A s \in Sessions :
          LET reg == [ac |-> active_connections', heap |-> heap']
          IN  /\ pc'[s] \in {"receiving", "chatting"} =>
                     Stored(reg, sess'[s].room, sess'[s].user) = {s}
              /\ (Active(s) /\ pc'[s] \in {"leaving", "done"}) =>
                     StoredHandles \ {p[2] : p \in UNION {dict_items(Inner(reg, r)) :
                                                            r \in DOMAIN reg.ac}}
                         \subseteq {s}]_vars

\* The payloads of sender s among those written to handle h, in the order
\* they were written: the numbers of the frames they answer.
FromSender(h, s) ==
    LET ids == wire[h]
        F[i \in 0..Len(ids)] ==
            IF i = 0 THEN << >>
            ELSE IF ids[i][1] = s THEN Append(F[i - 1], ids[i][2]) ELSE F[i - 1]
    IN  F[Len(ids)]

\* C25: a session reads a frame only when no broadcast of its own is in
\* flight, and every recipient is handed the chat payloads of one sender in
\* the order the sender's session read them, each at most once.
C25_PerSenderOrder ==
    [][/\ \A s \in Sessions :
             Len(read'[s]) > Len(read[s]) => call[s] = NoCall /\ pc[s] = "receiving"
       /\ \A h \in Handles, s \in Sessions :
             LET ids == FromSender(h, s)'
             IN  \A i, j \in 1..Len(ids) : i < j => ids[i] < ids[j]]_vars

\* A recipient other than the sender has been handed the sender's first and
\* second chat payload.
C25_Witness ==
    \E h \in Handles, s \in Sessions :
        h # s /\ FromSender(h, s) = <<1, 2>>

\* C26: two chat payloads handed to two recipients are handed to both in the
\* same order.
C26_SameRelativeOrder ==
    \A h1, h2 \in Handles :
        \A i1, j1 \in 1..Len(wire[h1]), i2, j2 \in 1..Len(wire[h2]) :
            (wire[h1][i1] = wire[h2][i2] /\ wire[h1][j1] = wire[h2][j2] /\ i1 < j1)
                => i2 < j2

\* The inner mapping of a room, empty for a room the registry does not hold.
Items(reg, room_id) == IF HasRoom(reg, room_id) THEN dict_items(Inner(reg, room_id)) ELSE {}

HandlesOf(reg, room_id) == {p[2] : p \in Items(reg, room_id)}

\* C27: rooms are isolated in the registry.  From every registry reached,
\* connect and disconnect for room r leave the inner mapping of every other
\* room q as it was, get_users_in_room(r) lists the keys of r's mapping,
\* and a broadcast for r starts with a handle of r; a step changes the
\* mapping of one room at most, a step of a broadcast changes none, and a
\* broadcast in flight for r makes no attempt to a handle registered under
\* another room.
C27_RoomsIsolated ==
    [][/\ \A r \in RoomKeys, u \in UserKeys :
             LET listed == get_users_in_room(Registry, r)
                 toUser == broadcast_to_user(Registry, u, r, <<"msg">>)
             IN  /\ {listed[i] : i \in 1..Len(listed)} = {p[1] : p \in Items(Registry, r)}
                 /\ toUser.status = "sending" => toUser.target \in HandlesOf(Registry, r)
                 /\ \A x \in {None} \cup {Some(v) : v \in UserKeys} :
                        LET toRoom == broadcast_to_room(Registry, r, <<"msg">>, x)
                        IN  toRoom.status = "sending" =>
                                toRoom.target \in HandlesOf(Registry, r)
                 /\ \A q \in RoomKeys \ {r} :
                        /\ \A h \in Handles :
                               Items(connect(Registry, h, r, u), q) = Items(Registry, q)
                        /\ Items(disconnect(Registry, r, u), q) = Items(Registry, q)
       /\ LET reg == [ac |-> active_connections', heap |-> heap']
              new == Attempted(call'[0]) \ Attempted(call[0])
          IN  /\ Cardinality({q \in RoomKeys : Items(reg, q) # Items(Registry, q)}) <= 1
              /\ call'[0] # call[0] =>
                     \A q \in RoomKeys : Items(reg, q) = Items(Registry, q)
              /\ \A q \in RoomKeys \ {call'[0].room} : new \cap HandlesOf(reg, q) = {}]_vars

\* One user key is registered in both rooms after a disconnect, and a
\* broadcast for one of the rooms is suspended in a send.
C27_Witness ==
    /\ HasUser(Registry, "general", "alice")
    /\ HasUser(Registry, "lobby", "alice")
    /\ Cardinality(registered) = 3
    /\ Cardinality(StoredHandles) = 2
    /\ replaced = {}
    /\ call[0].kind = "room"
    /\ call[0].room = "lobby"
    /\ call[0].status = "sending"

\* C28: every access token issued answers a request whose password verifies
\* against the stored hash of an existing user, the user the token names.
C28_TokenOnlyAfterPasswordCheck ==
    \A t \in issued :
        LET sub == decode_token(t.access_token)
        IN  /\ sub # None
            /\ get_user_by_username(Database, sub[1])
            /\ verify_password(t.password, hashed_password(sub[1]))

====
